---- MODULE Spec2Model ----
(***************************************************************************)
(* AASHTO 1993 flexible pavement design calculator (src/pavement.py).      *)
(*                                                                         *)
(* Floating point values are modelled as fixed-point numbers with four     *)
(* decimal digits (an integer v stands for v / 10^4) together with the     *)
(* IEEE special values NaN, -inf and +inf.  Every arithmetic operation     *)
(* rounds its result to the nearest representable value, as IEEE           *)
(* arithmetic does at its own precision.  W18 and MR are whole numbers and *)
(* are kept as plain integers; reliability percentages are kept in tenths  *)
(* of a percent (999 stands for 99.9).                                     *)
(*                                                                         *)
(* Two specifications are given.  Spec is one run of main() after the      *)
(* other: the widgets are read, the structural number is solved, the       *)
(* layers are allocated and shown.  SpecCore calls the three core          *)
(* functions directly on inputs that are not restricted to the widget      *)
(* ranges.                                                                 *)
(***************************************************************************)
EXTENDS Integers, Sequences, FiniteSets, TLC

VARIABLES pc, W18, reliability, ZR, So, p_initial, p_terminal, delta_psi, MR,
          a1, a2, a3, m2, m3, SN_required, D

vars == <<pc, W18, reliability, ZR, So, p_initial, p_terminal, delta_psi, MR,
          a1, a2, a3, m2, m3, SN_required, D>>

inputs == <<W18, reliability, ZR, So, p_initial, p_terminal, delta_psi, MR,
            a1, a2, a3, m2, m3>>

----------------------------------------------------------------------------
(* Fixed-point floating point values *)

Scale == 10^4

\* Largest grid index of the structural numbers the root finder may return:
\* the grid is -0.5, 0, 0.5, ..., MaxK / 2.
MaxK == 12

Fin(v) == [k |-> "fin", v |-> v]
NaN == [k |-> "nan", v |-> 0]
NInf == [k |-> "ninf", v |-> 0]
PInf == [k |-> "pinf", v |-> 0]
\* a local that has not been assigned in the current run
Unset == [k |-> "unset", v |-> 0]

Abs(i) == IF i < 0 THEN -i ELSE i

\* n / d rounded to the nearest integer, d # 0
RoundDiv(n, d) ==
  IF d > 0 THEN (n + d \div 2) \div d
           ELSE ((-n) + (-d) \div 2) \div (-d)

\* x <= y; every comparison with NaN is false
FLe(x, y) ==
  /\ x.k # "nan"
  /\ y.k # "nan"
  /\ \/ x.k = "ninf"
     \/ y.k = "pinf"
     \/ (x.k = "fin" /\ y.k = "fin" /\ x.v <= y.v)

FLt(x, y) == FLe(x, y) /\ ~FLe(y, x)

FGt(x, y) == FLt(y, x)

FGe(x, y) == FLe(y, x)

FNeg(x) ==
  CASE x.k = "fin" -> Fin(-x.v)
    [] x.k = "ninf" -> PInf
    [] x.k = "pinf" -> NInf
    [] OTHER -> NaN

FAdd(x, y) ==
  CASE x.k = "nan" \/ y.k = "nan" -> NaN
    [] x.k = "fin" /\ y.k = "fin" -> Fin(x.v + y.v)
    [] x.k = "fin" -> y
    [] y.k = "fin" -> x
    [] x.k = y.k -> x
    [] OTHER -> NaN

FSub(x, y) == FAdd(x, FNeg(y))

FSign(x) ==
  CASE x.k = "pinf" -> 1
    [] x.k = "ninf" -> -1
    [] x.k = "fin" /\ x.v > 0 -> 1
    [] x.k = "fin" /\ x.v < 0 -> -1
    [] OTHER -> 0

FMul(x, y) ==
  CASE x.k = "nan" \/ y.k = "nan" -> NaN
    [] x.k = "fin" /\ y.k = "fin" -> Fin(RoundDiv(x.v * y.v, Scale))
    [] FSign(x) * FSign(y) = 0 -> NaN
    [] FSign(x) * FSign(y) > 0 -> PInf
    [] OTHER -> NInf

\* x / y for a finite divisor other than zero
FDiv(x, y) ==
  CASE x.k = "nan" \/ y.k = "nan" -> NaN
    [] x.k = "fin" /\ y.k = "fin" -> Fin(RoundDiv(x.v * Scale, y.v))
    [] y.k = "fin" /\ FSign(x) * FSign(y) > 0 -> PInf
    [] y.k = "fin" -> NInf
    [] x.k = "fin" -> Fin(0)
    [] OTHER -> NaN

\* log10 of n/d, in units of 1/Scale, tabulated for the positive arguments
\* that occur
Log10Table(n, d) ==
  CASE n = 1 /\ d = 2 -> -3010
    [] n = 2 /\ d = 2 -> 0
    [] n = 3 /\ d = 2 -> 1761
    [] n = 4 /\ d = 2 -> 3010
    [] n = 5 /\ d = 2 -> 3979
    [] n = 6 /\ d = 2 -> 4771
    [] n = 7 /\ d = 2 -> 5441
    [] n = 8 /\ d = 2 -> 6021
    [] n = 9 /\ d = 2 -> 6532
    [] n = 10 /\ d = 2 -> 6990
    [] n = 11 /\ d = 2 -> 7404
    [] n = 12 /\ d = 2 -> 7782
    [] n = 13 /\ d = 2 -> 8129
    [] n = 14 /\ d = 2 -> 8451
    [] n = 15 /\ d = 2 -> 8751
    [] n = 16 /\ d = 2 -> 9031
    [] n = 17 /\ d = 2 -> 9294
    [] n = 1000 /\ d = 27000 -> -14314
    [] n = 5000 /\ d = 27000 -> -7324
    [] n = 12000 /\ d = 27000 -> -3522
    [] n = 17000 /\ d = 27000 -> -2009
    [] n = 15000 /\ d = 27000 -> -2553
    [] n = 20000 /\ d = 27000 -> -1303
    [] n = 25000 /\ d = 27000 -> -334
    [] n = 27000 /\ d = 27000 -> 0
    [] n = 35000 /\ d = 27000 -> 1127
    [] n = 1000 /\ d = 1 -> 30000
    [] n = 10000 /\ d = 1 -> 40000
    [] n = 30000 /\ d = 1 -> 44771
    [] n = 100000 /\ d = 1 -> 50000
    [] n = 1000000 /\ d = 1 -> 60000
    [] n = 100000000 /\ d = 1 -> 80000

\* np.log10 of n/d (d > 0): nan below zero and -inf at zero, with a warning
\* and without raising
np_log10(n, d) ==
  IF n < 0 THEN NaN
  ELSE IF n = 0 THEN NInf
  ELSE Fin(Log10Table(n, d))

\* (n/2) ** 5.19 in hundredths, n = 1 .. 17
Pow519Table ==
  <<3, 100, 820, 3650, 11623, 29941, 66637, 133257, 245569, 424282,
    695797, 1092962, 1655847, 2432533, 3479910, 4864487, 6663221>>

----------------------------------------------------------------------------
(* calculate_sn_from_aashto *)

SN_initial_guess == 30000

\* the structural numbers the root finder's iterates are drawn from
SNGrid == {j * (Scale \div 2) : j \in -1..MaxK}

aashto_equation(SN, w18, zr, so, dpsi, mr) ==
  LET n == (2 * (SN + Scale)) \div Scale
      term1 == FMul(Fin(zr), Fin(so))
      term2 == FMul(Fin(93600), np_log10(n, 2))
      term3 == Fin(-2000)
      numerator == np_log10(dpsi, 27000)
      denominator ==
        FAdd(Fin(4000), Fin(RoundDiv(1094 * Scale * 100, Pow519Table[n])))
      term4 == FDiv(numerator, denominator)
      term5 == FMul(Fin(23200), np_log10(mr, 1))
      term6 == Fin(-80700)
  IN  FSub(FAdd(FAdd(FAdd(FAdd(FAdd(term1, term2), term3), term4), term5),
                term6),
           np_log10(w18, 1))

\* scipy.optimize.fsolve(aashto_equation, SN_initial_guess)[0].  The solver
\* replaces its iterate only by a point at which the residual is finite and
\* smaller in magnitude; it reports failure to converge by a warning and
\* returns the iterate it has.  The result is therefore the starting point
\* or a point whose residual is finite and no larger than the starting one.
fsolve(w18, zr, so, dpsi, mr) ==
  LET f0 == aashto_equation(SN_initial_guess, w18, zr, so, dpsi, mr)
  IN  IF f0.k # "fin"
      THEN {Fin(SN_initial_guess)}
      ELSE {Fin(x) : x \in
              {y \in SNGrid :
                 LET fy == aashto_equation(y, w18, zr, so, dpsi, mr)
                 IN  fy.k = "fin" /\ Abs(fy.v) <= Abs(f0.v)}}

\* Python's max(a, b): b if b > a, else a
PyMax_noclamp(a, b) == a

PyMax(a, b) == IF FGt(b, a) THEN b ELSE a

\* the values calculate_sn_from_aashto may return
calculate_sn_from_aashto(w18, zr, so, dpsi, mr) ==
  {PyMax(x, Fin(0)) : x \in fsolve(w18, zr, so, dpsi, mr)}

----------------------------------------------------------------------------
(* calculate_layer_thickness *)

D1_min == 30000

D2_min == 60000

\* SN1 = a1 * D1_min
LayerSN1(c1) == FMul(Fin(c1), Fin(D1_min))

\* SN2 = a2 * D2_min * m2
LayerSN2_nodrain(c2, d2) == FMul(Fin(c2), Fin(D2_min))

LayerSN2(c2, d2) == FMul(FMul(Fin(c2), Fin(D2_min)), Fin(d2))

\* the test "remaining <= 0" of both early returns
TargetMet_strict(rem) == FLt(rem, Fin(0))

TargetMet(rem) == FLe(rem, Fin(0))

\* D3 = SN_remaining2 / (a3 * m3)
SubbaseThickness_nodrain(rem, c3, d3) == FDiv(rem, Fin(c3))

SubbaseThickness(rem, c3, d3) == FDiv(rem, FMul(Fin(c3), Fin(d3)))

calculate_layer_thickness_noguard(sn, c1, c2, c3, d2, d3) ==
  LET SN_remaining == FSub(sn, LayerSN1(c1))
      SN_remaining2 == FSub(SN_remaining, LayerSN2(c2, d2))
  IN  IF TargetMet(SN_remaining)
      THEN <<Fin(D1_min), Fin(0), Fin(0)>>
      ELSE <<Fin(D1_min), Fin(D2_min), SubbaseThickness(SN_remaining2, c3, d3)>>

calculate_layer_thickness(sn, c1, c2, c3, d2, d3) ==
  LET SN_remaining == FSub(sn, LayerSN1(c1))
      SN_remaining2 == FSub(SN_remaining, LayerSN2(c2, d2))
  IN  IF TargetMet(SN_remaining)
      THEN <<Fin(D1_min), Fin(0), Fin(0)>>
      ELSE IF TargetMet(SN_remaining2)
      THEN <<Fin(D1_min), Fin(D2_min), Fin(0)>>
      ELSE <<Fin(D1_min), Fin(D2_min), SubbaseThickness(SN_remaining2, c3, d3)>>

----------------------------------------------------------------------------
(* get_reliability_z *)

get_reliability_z_default90(r) ==
  CASE r = 500 -> 0
    [] r = 600 -> -2530
    [] r = 700 -> -5240
    [] r = 750 -> -6740
    [] r = 800 -> -8410
    [] r = 850 -> -10370
    [] r = 900 -> -12820
    [] r = 950 -> -16450
    [] r = 990 -> -23270
    [] r = 999 -> -30900
    [] OTHER -> -12820

get_reliability_z(r) ==
  CASE r = 500 -> 0
    [] r = 600 -> -2530
    [] r = 700 -> -5240
    [] r = 750 -> -6740
    [] r = 800 -> -8410
    [] r = 850 -> -10370
    [] r = 900 -> -12820
    [] r = 950 -> -16450
    [] r = 990 -> -23270
    [] r = 999 -> -30900
    [] OTHER -> -16450

----------------------------------------------------------------------------
(* main(): the widgets and one run of the script *)

W18Widget == {1000, 1000000, 100000000}
ReliabilityWidget == {500, 900, 950, 999}
SoWidget == {3000, 4500}
PInitialWidget == {30000, 42000, 50000}
PTerminalWidget == {15000, 25000, 30000}
MRWidget == {1000, 10000, 30000}
A1Widget == {2000, 4400}
A2Widget == {500, 1400}
A3Widget == {500, 1100}
M2Widget == {8000, 10000}
M3Widget == {10000, 12000}

\* the first run of the script, with every widget at its default
Init ==
  /\ pc = "collected"
  /\ W18 = 1000000
  /\ reliability = 900
  /\ ZR = get_reliability_z(900)
  /\ So = 4500
  /\ p_initial = 42000
  /\ p_terminal = 25000
  /\ delta_psi = 42000 - 25000
  /\ MR = 10000
  /\ a1 = 4400
  /\ a2 = 1400
  /\ a3 = 1100
  /\ m2 = 10000
  /\ m3 = 10000
  /\ SN_required = Unset
  /\ D = <<Unset, Unset, Unset>>

\* the sidebar block of one run: the widgets are read, ZR is looked up and
\* delta_psi is computed; the locals of the previous run are gone
Sidebar(w, r, s, p0, pt, mr, c1, c2, c3, d2, d3) ==
  /\ W18' = w
  /\ reliability' = r
  /\ ZR' = get_reliability_z(r)
  /\ So' = s
  /\ p_initial' = p0
  /\ p_terminal' = pt
  /\ delta_psi' = p0 - pt
  /\ MR' = mr
  /\ a1' = c1
  /\ a2' = c2
  /\ a3' = c3
  /\ m2' = d2
  /\ m3' = d3
  /\ SN_required' = Unset
  /\ D' = <<Unset, Unset, Unset>>
  /\ pc' = "collected"

\* the user changes one widget and the script runs again from the top
ReadWidgets ==
  /\ pc = "displayed"
  /\ \/ \E w \in W18Widget :
          Sidebar(w, reliability, So, p_initial, p_terminal, MR,
                  a1, a2, a3, m2, m3)
     \/ \E r \in ReliabilityWidget :
          Sidebar(W18, r, So, p_initial, p_terminal, MR, a1, a2, a3, m2, m3)
     \/ \E s \in SoWidget :
          Sidebar(W18, reliability, s, p_initial, p_terminal, MR,
                  a1, a2, a3, m2, m3)
     \/ \E p0 \in PInitialWidget :
          Sidebar(W18, reliability, So, p0, p_terminal, MR,
                  a1, a2, a3, m2, m3)
     \/ \E pt \in PTerminalWidget :
          Sidebar(W18, reliability, So, p_initial, pt, MR,
                  a1, a2, a3, m2, m3)
     \/ \E mr \in MRWidget :
          Sidebar(W18, reliability, So, p_initial, p_terminal, mr,
                  a1, a2, a3, m2, m3)
     \/ \E c1 \in A1Widget :
          Sidebar(W18, reliability, So, p_initial, p_terminal, MR,
                  c1, a2, a3, m2, m3)
     \/ \E c2 \in A2Widget :
          Sidebar(W18, reliability, So, p_initial, p_terminal, MR,
                  a1, c2, a3, m2, m3)
     \/ \E c3 \in A3Widget :
          Sidebar(W18, reliability, So, p_initial, p_terminal, MR,
                  a1, a2, c3, m2, m3)
     \/ \E d2 \in M2Widget :
          Sidebar(W18, reliability, So, p_initial, p_terminal, MR,
                  a1, a2, a3, d2, m3)
     \/ \E d3 \in M3Widget :
          Sidebar(W18, reliability, So, p_initial, p_terminal, MR,
                  a1, a2, a3, m2, d3)

\* SN_required = calculate_sn_from_aashto(W18, ZR, So, delta_psi, MR)
Solve ==
  /\ pc = "collected"
  /\ SN_required' \in calculate_sn_from_aashto(W18, ZR, So, delta_psi, MR)
  /\ pc' = "solved"
  /\ UNCHANGED <<inputs, D>>

\* D1, D2, D3 = calculate_layer_thickness(SN_required, a1, a2, a3, m2, m3),
\* then the tables and charts are drawn
Allocate ==
  /\ pc = "solved"
  /\ D' = calculate_layer_thickness(SN_required, a1, a2, a3, m2, m3)
  /\ pc' = "displayed"
  /\ UNCHANGED <<inputs, SN_required>>

Next == ReadWidgets \/ Solve \/ Allocate

Spec == Init /\ [][Next]_vars

----------------------------------------------------------------------------
(* Direct calls of the three core functions *)

ReliabilityArgs ==
  {0, 499, 500, 501, 550, 600, 700, 750, 800, 850, 900, 950, 990, 995, 999,
   1000}
W18Args == {1000, 1000000}
ZRArgs == {0, -12820, -30900}
SoArgs == {3000, 4500}
DeltaPsiArgs == {-5000, 0, 1000, 17000, 35000}
MRArgs == {-1000, 0, 10000, 100000}
SNArgs ==
  {NaN} \cup
  {Fin(v) : v \in {-10000, 0, 6000, 6001, 13200, 15000, 18720, 20200, 21600,
                   30000, 45000, MaxK * (Scale \div 2)}}
A1Args == {2000, 4400, 5000}
A2Args == {500, 1400, 2000}
A3Args == {500, 1100, 1500}
M2Args == {8000, 10000, 12000}
M3Args == {8000, 10000, 12000}

InitCore ==
  /\ pc = "idle"
  /\ W18 = 1000000
  /\ reliability = 900
  /\ ZR = get_reliability_z(900)
  /\ So = 4500
  /\ p_initial = 42000
  /\ p_terminal = 25000
  /\ delta_psi = 42000 - 25000
  /\ MR = 10000
  /\ a1 = 4400
  /\ a2 = 1400
  /\ a3 = 1100
  /\ m2 = 10000
  /\ m3 = 10000
  /\ SN_required = Unset
  /\ D = <<Unset, Unset, Unset>>

\* ZR = get_reliability_z(r)
CallReliabilityZ ==
  /\ pc = "idle"
  /\ \E r \in ReliabilityArgs :
       /\ reliability' = r
       /\ ZR' = get_reliability_z(r)
  /\ pc' = "zr"
  /\ UNCHANGED <<W18, So, p_initial, p_terminal, delta_psi, MR,
                 a1, a2, a3, m2, m3, SN_required, D>>

\* SN_required = calculate_sn_from_aashto(w, zr, s, dp, mr)
CallSolve ==
  /\ pc = "idle"
  /\ \E w \in W18Args, zr \in ZRArgs, s \in SoArgs, dp \in DeltaPsiArgs,
        mr \in MRArgs :
       /\ W18' = w
       /\ ZR' = zr
       /\ So' = s
       /\ delta_psi' = dp
       /\ MR' = mr
       /\ SN_required' \in calculate_sn_from_aashto(w, zr, s, dp, mr)
  /\ pc' = "sn"
  /\ UNCHANGED <<reliability, p_initial, p_terminal,
                 a1, a2, a3, m2, m3, D>>

\* D = calculate_layer_thickness(sn, c1, c2, c3, d2, d3)
CallAllocate ==
  /\ pc = "idle"
  /\ \E sn \in SNArgs, c1 \in A1Args, c2 \in A2Args, c3 \in A3Args,
        d2 \in M2Args, d3 \in M3Args :
       /\ SN_required' = sn
       /\ a1' = c1
       /\ a2' = c2
       /\ a3' = c3
       /\ m2' = d2
       /\ m3' = d3
       /\ D' = calculate_layer_thickness(sn, c1, c2, c3, d2, d3)
  /\ pc' = "layers"
  /\ UNCHANGED <<W18, reliability, ZR, So, p_initial, p_terminal,
                 delta_psi, MR>>

\* the call has returned and its result has been looked at
Return ==
  /\ pc # "idle"
  /\ pc' = "idle"
  /\ W18' = 1000000
  /\ reliability' = 900
  /\ ZR' = get_reliability_z(900)
  /\ So' = 4500
  /\ p_initial' = 42000
  /\ p_terminal' = 25000
  /\ delta_psi' = 42000 - 25000
  /\ MR' = 10000
  /\ a1' = 4400
  /\ a2' = 1400
  /\ a3' = 1100
  /\ m2' = 10000
  /\ m3' = 10000
  /\ SN_required' = Unset
  /\ D' = <<Unset, Unset, Unset>>

NextCore == CallReliabilityZ \/ CallSolve \/ CallAllocate \/ Return

SpecCore == InitCore /\ [][NextCore]_vars

----------------------------------------------------------------------------
(* Properties *)

\* SN1, SN2, SN3 as main() recomputes them from the thicknesses
ContribSN1 == FMul(Fin(a1), D[1])
ContribSN2 == FMul(FMul(Fin(a2), D[2]), Fin(m2))
ContribSN3 == FMul(FMul(Fin(a3), D[3]), Fin(m3))
SN_total == FAdd(FAdd(ContribSN1, ContribSN2), ContribSN3)

\* C1: whenever calculate_layer_thickness returns D3 > 0, the total
\* a1*D1 + a2*D2*m2 + a3*D3*m3 equals SN_required up to the rounding of the
\* arithmetic (two units of the last digit).
C1_BalanceWhenSubbase ==
  (pc = "layers" /\ FGt(D[3], Fin(0))) =>
    /\ SN_total.k = "fin"
    /\ SN_required.k = "fin"
    /\ Abs(SN_total.v - SN_required.v) <= 2

C1_Witness ==
  /\ pc = "layers"
  /\ FGt(D[3], Fin(0))
  /\ m2 # Scale
  /\ m3 # Scale

\* C2: when D3 == 0 and D2 == 6.0 the asphalt and base layers together reach
\* SN_required, and when D2 == 0 the asphalt layer alone reaches it.
C2_PresentLayersMeetTarget ==
  /\ (pc = "layers" /\ D[3] = Fin(0) /\ D[2] = Fin(D2_min)) =>
       FGe(FAdd(ContribSN1, ContribSN2), SN_required)
  /\ (pc = "layers" /\ D[2] = Fin(0)) => FGe(ContribSN1, SN_required)

C2_Witness ==
  /\ pc = "layers"
  /\ D = <<Fin(D1_min), Fin(D2_min), Fin(0)>>
  /\ m2 # Scale
  /\ FGt(SN_required, ContribSN1)

\* C3: every SN_required <= a1 * 3.0, equality and zero included, yields
\* exactly (3.0, 0, 0) whatever a2, a3, m2, m3 are.
C3_MinimumAsphaltOnly ==
  (pc = "layers" /\ FLe(SN_required, FMul(Fin(a1), Fin(30000)))) =>
    D = <<Fin(30000), Fin(0), Fin(0)>>

C3_Witness ==
  /\ pc = "layers"
  /\ SN_required = FMul(Fin(a1), Fin(30000))
  /\ D = <<Fin(30000), Fin(0), Fin(0)>>
  /\ a2 # 1400

\* C4: get_reliability_z returns the tabulated deviate for each of the ten
\* reliability levels and -1.645 for every other argument.
C4_ReliabilityTable ==
  (pc = "zr") =>
    /\ (reliability = 500 => ZR = 0)
    /\ (reliability = 600 => ZR = -2530)
    /\ (reliability = 700 => ZR = -5240)
    /\ (reliability = 750 => ZR = -6740)
    /\ (reliability = 800 => ZR = -8410)
    /\ (reliability = 850 => ZR = -10370)
    /\ (reliability = 900 => ZR = -12820)
    /\ (reliability = 950 => ZR = -16450)
    /\ (reliability = 990 => ZR = -23270)
    /\ (reliability = 999 => ZR = -30900)
    /\ (reliability \notin {500, 600, 700, 750, 800, 850, 900, 950, 990, 999}
          => ZR = -16450)

C4_Witness ==
  /\ pc = "zr"
  /\ reliability = 995
  /\ ZR = -16450

\* C5: calculate_sn_from_aashto returns a number that is never negative,
\* whichever point the root finder stopped at.
C5_SolverNonNegative ==
  (pc = "sn") => (SN_required.k = "fin" /\ SN_required.v >= 0)

C5_Witness ==
  /\ pc = "sn"
  /\ SN_required = Fin(0)
  /\ delta_psi > 0
  /\ MR > 0
  /\ \E x \in fsolve(W18, ZR, So, delta_psi, MR) : x.v < 0

\* C6: for the SN_required that the solver hands to the allocator in main(),
\* the thicknesses are (3.0, 0, 0), (3.0, 6.0, 0) or (3.0, 6.0, D3) with
\* D3 > 0.
C6_LayerShapes ==
  (pc = "displayed") =>
    \/ D = <<Fin(30000), Fin(0), Fin(0)>>
    \/ D = <<Fin(30000), Fin(60000), Fin(0)>>
    \/ /\ D[1] = Fin(30000)
       /\ D[2] = Fin(60000)
       /\ D[3].k = "fin"
       /\ D[3].v > 0

C6_Witness ==
  /\ pc = "displayed"
  /\ D[2] = Fin(60000)
  /\ FGt(D[3], Fin(0))
  /\ FGt(SN_required, Fin(0))

\* C7: for a domain-invalid input (delta_psi <= 0 or MR <= 0) the solver
\* does not return a result to main(): the run never gets past the call.
C7_InvalidInputNeverSolved ==
  (delta_psi <= 0 \/ MR <= 0) => pc \notin {"solved", "displayed"}

\* C11: for every pair of initial PSI in [3.0, 5.0] and terminal PSI in
\* [1.5, 3.0] that the form accepts, the delta_psi handed to
\* calculate_sn_from_aashto is strictly greater than 0.
C11_AcceptedPsiPairGivesPositiveDelta ==
  (/\ pc = "solved"
   /\ 30000 <= p_initial /\ p_initial <= 50000
   /\ 15000 <= p_terminal /\ p_terminal <= 30000) => delta_psi > 0

====
